---- MODULE Spec2Model ----
(***************************************************************************)
(* A model of the Excel -> Parquet converter (src/converter.py), of the    *)
(* desktop application that drives it (src/main.py) and of the HTTP        *)
(* backend (src/backend/main.py).                                          *)
(*                                                                         *)
(* These specifications share the module:                                  *)
(*   Spec        one call of convert_excel_to_parquet, statement by        *)
(*               statement, for every environment and progress sink;       *)
(*   TableSpec   the same call on a readable source, for every table       *)
(*               content the reader returns;                               *)
(*   BatchSpec   one call of convert_multiple on a bounded thread pool;    *)
(*   PoolSpec    the same pool under fair scheduling of its threads;       *)
(*   SameNameSpec  a batch of workbooks with the same base name;           *)
(*   WorkerSpec  one ConversionWorker (QThread) with cancel();             *)
(*   QueueSpec   the desktop window: its queue, workers and history        *)
(*               (QueueFairSpec: the same under fair scheduling);          *)
(*   WebSpec     the HTTP backend: /convert, /download, DELETE /history;   *)
(*   HistorySpec either program started with a nearly full history.        *)
(*                                                                         *)
(* The spreadsheet reader, the parquet writer and the file system are the  *)
(* environment: whether a source exists, which engine can read it, whether *)
(* the table converts and whether the target is writable are inputs drawn  *)
(* in Init.  No other party changes the file system during a run.  pandas  *)
(* and pyarrow are modelled by what they do to the cells of a table.       *)
(***************************************************************************)
EXTENDS Integers, Sequences, FiniteSets, TLC

VARIABLES
    run,            \* the activation of convert_excel_to_parquet under study
    \* ---- convert_multiple (src/converter.py:202-237)
    input_files,    \* the ordered collection of input paths
    output_dir,     \* the output directory, or NoDir
    max_workers,    \* the argument, None when not given
    pool_max_workers, \* the executor's _max_workers, 0 before it is created
    cpu_count,      \* what os.cpu_count() answers (0 stands for None)
    progress_callback, \* kind of the batch progress sink: "none", "ok", "raise"
    bpc,            \* position of the calling thread in convert_multiple
    submitted,      \* number of inputs submitted so far (futures 1..submitted)
    work_queue,     \* the executor's FIFO of futures not yet taken by a thread
    threads,        \* number of pool threads spawned
    idle_semaphore, \* the executor's _idle_semaphore: releases not yet acquired
    disk,           \* output path -> the size os.path.getsize answers for it now
    current,        \* thread -> the future it is running, 0 when idle
    releasing,      \* thread -> its work item is done, _idle_semaphore not yet released
    future,         \* future -> [state, result, yielded]
    results,        \* the list convert_multiple builds
    \* ---- ConversionWorker (src/main.py:33-55)
    wpc,            \* position of the worker thread in run()
    cancelled,      \* ConversionWorker._cancelled
    emitted,        \* results carried by the finished signal, in order
    cancelAt,       \* history: pc of the conversion when cancel() was first called
    \* ---- MainWindow and its FileItems (src/main.py:57-561)
    gui,            \* the window: queue, items, flag, posted events, history
    \* ---- the HTTP backend (src/backend/main.py)
    web             \* uploads/, converted/, history.json and the last response

vars == <<run, input_files, output_dir, max_workers, pool_max_workers, cpu_count,
          progress_callback, bpc, submitted, work_queue, threads, idle_semaphore,
          disk, current, releasing, future, results, wpc, cancelled, emitted, cancelAt, gui, web>>

batchVars == <<input_files, output_dir, max_workers, pool_max_workers, cpu_count,
               progress_callback, bpc, submitted, work_queue, threads,
               idle_semaphore, disk, current, releasing, future, results>>

workerVars == <<wpc, cancelled, emitted, cancelAt>>

appVars == <<gui, web>>

-----------------------------------------------------------------------------
(* Bounds of the model *)

\* longest batch handed to convert_multiple
MaxFiles == 3

\* largest max_workers argument tried
MaxWorkersArg == 2

\* a raising sink raises at its k-th call, k in 1..MaxRaiseAt
MaxRaiseAt == 6

-----------------------------------------------------------------------------
(* Values *)

\* Python's None for max_workers (an int otherwise)
None == -1

\* Python's None for ConversionResult.error
NoError == "<None>"

\* Python's None for a path
NoPath == [dir |-> "", stem |-> "", ext |-> ""]

NoDir == ""

\* ConversionResult.__init__ defaults (src/converter.py:17-19)
DefaultSize == 0
DefaultElapsed == 0

\* os.cpu_count() or 4
FallbackCpus == 4

\* the messages of the exceptions the environment raises
ReadErrorMsg == "Excel file format cannot be determined"
BuildErrorMsg == "Duplicate column names found"
WriteErrorMsg == "Permission denied"
\* line 110 (the source spells it with a dotless i)
MissingMsg == "Dosya bulunamadi"

\* str(e) of an exception raised by a sink: with and without a message
SinkMsgs == {"", "sink failed"}

ConversionResult(success, input_file, output_file, input_size, output_size, elapsed, error) ==
    [success |-> success, input_file |-> input_file, output_file |-> output_file,
     input_size |-> input_size, output_size |-> output_size,
     elapsed |-> elapsed, error |-> error]

NoResult == ConversionResult(FALSE, NoPath, NoPath, DefaultSize, DefaultSize, DefaultElapsed, NoError)

-----------------------------------------------------------------------------
(* Paths: os.path.splitext, os.path.basename, os.path.join *)

Path(d, s, e) == [dir |-> d, stem |-> s, ext |-> e]

\* os.path.splitext(p)[0]: the path without its extension
SplitextBase(p) == [p EXCEPT !.ext = ""]

\* os.path.basename(p): the path without its directory
Basename(p) == [p EXCEPT !.dir = ""]

\* base_name + ".parquet"
WithParquet(p) == [p EXCEPT !.ext = "parquet"]

\* os.path.join(output_dir, name)
Join(d, p) == [p EXCEPT !.dir = d]

-----------------------------------------------------------------------------
(* Tables: the pandas DataFrame the reader returns, the pyarrow Table *)

\* A cell: a Python object held by a DataFrame, or a value of an Arrow array.
\* k is its kind, n its number (tenths for a float, 0/1 for a bool, the day
\* for a timestamp), s its text.
Cell(k, n, s) == [k |-> k, n |-> n, s |-> s]

PyInt(n) == Cell("int", n, "")
\* a finite float, given in tenths: PyFloat(25) is 2.5
PyFloat(tenths) == Cell("float", tenths, "")
Inf == Cell("inf", 0, "")
NaN == Cell("nan", 0, "")
PyBool(b) == Cell("bool", IF b THEN 1 ELSE 0, "")
\* midnight of the d-th of January 2021
Ts(d) == Cell("ts", d, "")
NaT == Cell("nat", 0, "")
PyStr(s) == Cell("str", 0, s)
\* the null of an Arrow array
Null == Cell("null", 0, "")

\* pandas' missing values
IsNA(c) == c.k \in {"nan", "nat"}

\* Python's str(x), as Index.astype(str) and DataFrame.astype(str) apply it
StrOf(c) ==
    CASE c.k = "int"   -> ToString(c.n)
      [] c.k = "float" -> ToString(c.n \div 10) \o "." \o ToString(c.n % 10)
      [] c.k = "inf"   -> "inf"
      [] c.k = "nan"   -> "nan"
      [] c.k = "bool"  -> IF c.n = 1 THEN "True" ELSE "False"
      [] c.k = "ts"    -> "2021-01-0" \o ToString(c.n)
      [] c.k = "nat"   -> "NaT"
      [] c.k = "str"   -> c.s

\* one column of a DataFrame: its label (an int or a str), its dtype, its cells
Series(name, dtype, values) == [name |-> name, dtype |-> dtype, values |-> values]

\* a DataFrame is the sequence of its columns; the one without columns
NoFrame == << >>

\* one column of a Table: the field (name, type, nullable) and the array
Field(name, type, nullable, values) ==
    [name |-> name, type |-> type, nullable |-> nullable, values |-> values]

NoTable == << >>

\* line 35: df.columns.astype(str)
ColumnsAstypeStr(df) ==
    [i \in DOMAIN df |-> [df[i] EXCEPT !.name = PyStr(StrOf(df[i].name))]]

\* Index.is_unique
IsUnique(df) == \A i, j \in DOMAIN df : df[i].name = df[j].name => i = j

\* pd.api.types.is_integer_dtype
IsIntegerDtype(dtype) == dtype \in {"int64", "Int64"}

\* lines 52-54: an integer column becomes the nullable Int64; lines 39-49 and
\* 60-62 change nothing
CleanSeries(col) ==
    IF IsIntegerDtype(col.dtype) THEN [col EXCEPT !.dtype = "Int64"] ELSE col

\* lines 37-39: for a label that several columns carry, df[col] is a DataFrame
\* and has no dtype (AttributeError)
CleanRaises(df) == ~IsUnique(ColumnsAstypeStr(df))

CleanErrorMsg == "'DataFrame' object has no attribute 'dtype'"

\* lines 28-64
CleanDataframeForPowerbi(df) ==
    LET named == ColumnsAstypeStr(df)
    IN  [i \in DOMAIN named |-> CleanSeries(named[i])]

\* lines 35-39 and 52-54: the frame as clean_dataframe_for_powerbi leaves it
\* when it raises.  It works on the caller's frame: the columns are renamed,
\* and the columns before the first label that several columns carry have
\* been through the loop.
CleanedUntilRaise(df) ==
    LET named == ColumnsAstypeStr(df)
        twice(i) == \E j \in DOMAIN named : j # i /\ named[j].name = named[i].name
    IN  [i \in DOMAIN named |->
            IF \E k \in 1..i : twice(k) THEN named[i] ELSE CleanSeries(named[i])]

\* lines 79-91: the Arrow type chosen for a dtype
PowerbiType(dtype) ==
    IF IsIntegerDtype(dtype) THEN "int64"
    ELSE IF dtype = "float64" THEN "double"
    ELSE IF dtype = "bool" THEN "bool"
    ELSE IF dtype = "datetime64[ns]" THEN "timestamp[ms]"
    ELSE "string"

\* line 93 with a field that is nullable only where the column holds a null
PowerbiFieldNullableIfNull(col) ==
    Field(StrOf(col.name), PowerbiType(col.dtype),
          \E j \in DOMAIN col.values : IsNA(col.values[j]), << >>)

\* line 93: pa.field(col, pa_type, nullable=True)
PowerbiField(col) ==
    Field(StrOf(col.name), PowerbiType(col.dtype), TRUE, << >>)

\* lines 67-95: create_powerbi_compatible_schema (fields without arrays)
CreatePowerbiCompatibleSchema(df) == [i \in DOMAIN df |-> PowerbiField(df[i])]

\* the kinds of the cells of a column that are not missing
Kinds(values) == {values[j].k : j \in {i \in DOMAIN values : ~IsNA(values[i])}}

\* pyarrow's type inference for an object column, which decides by the first
\* present cell
InferTypeByFirst(values) ==
    LET present == {i \in DOMAIN values : ~IsNA(values[i])}
    IN  IF present = {} THEN "null"
        ELSE LET first == values[CHOOSE i \in present : \A j \in present : i <= j].k
             IN  IF first = "str" THEN "string"
                 ELSE IF first = "bool" THEN "bool"
                 ELSE IF first = "int" THEN "int64"
                 ELSE IF first = "ts" THEN "timestamp[ns]"
                 ELSE "double"

\* pyarrow's type inference for an object column that tolerates any mixture
InferTypeLenient(values) ==
    LET ks == Kinds(values)
    IN  IF ks = {} THEN "null"
        ELSE IF ks = {"bool"} THEN "bool"
        ELSE IF ks = {"int"} THEN "int64"
        ELSE IF ks \subseteq {"int", "float", "inf"} THEN "double"
        ELSE IF ks = {"ts"} THEN "timestamp[ns]"
        ELSE "string"

\* pyarrow's type inference for an object column: it looks at every present
\* cell; text with anything else, or any other mixture but int with float, is
\* an ArrowInvalid / ArrowTypeError ("error")
InferType(values) ==
    LET ks == Kinds(values)
    IN  IF ks = {} THEN "null"
        ELSE IF ks = {"str"} THEN "string"
        ELSE IF ks = {"bool"} THEN "bool"
        ELSE IF ks = {"int"} THEN "int64"
        ELSE IF ks \subseteq {"int", "float", "inf"} THEN "double"
        ELSE IF ks = {"ts"} THEN "timestamp[ns]"
        ELSE "error"

\* the Arrow type pa.Table.from_pandas gives a column
ArrowType(col) ==
    IF IsIntegerDtype(col.dtype) THEN "int64"
    ELSE IF col.dtype = "float64" THEN "double"
    ELSE IF col.dtype = "bool" THEN "bool"
    ELSE IF col.dtype = "datetime64[ns]" THEN "timestamp[ns]"
    ELSE IF col.dtype = "str" THEN "string"
    ELSE InferType(col.values)

\* the Arrow value of a cell: a missing cell is null, an int in a double
\* column is that float, anything else (infinity included) is itself
ArrowValue(c, type) ==
    IF IsNA(c) THEN Null
    ELSE IF type = "double" /\ c.k = "int" THEN PyFloat(10 * c.n)
    ELSE c

\* pa.Table.from_pandas leaving the missing cells out of the array
ArrayDroppingNulls(col) ==
    Field(StrOf(col.name), ArrowType(col), TRUE,
          SelectSeq([j \in DOMAIN col.values |-> ArrowValue(col.values[j], ArrowType(col))],
                    LAMBDA c : c # Null))

\* one column of pa.Table.from_pandas(df, preserve_index=False): a field is
\* nullable unless a schema says otherwise
ArrayFromPandas(col) ==
    Field(StrOf(col.name), ArrowType(col), TRUE,
          [j \in DOMAIN col.values |-> ArrowValue(col.values[j], ArrowType(col))])

\* lines 151 and 164: from_pandas refuses repeated names (ValueError) and
\* columns whose cells do not convert to one type
FromPandasRaises(df) ==
    \/ ~IsUnique(df)
    \/ \E i \in DOMAIN df : ArrowType(df[i]) = "error"

TableFromPandas(df) == [i \in DOMAIN df |-> ArrayFromPandas(df[i])]

\* line 156: field.with_nullable(True)
WithNullable(field, nullable) == [field EXCEPT !.nullable = nullable]

\* lines 154-159: the table cast to the schema with every field nullable
\* (the types do not change, so neither do the values)
CastAllNullable(table) == [i \in DOMAIN table |-> WithNullable(table[i], TRUE)]

\* line 163: df_pandas.astype(str), every column of the frame.  Up to pandas 2
\* every cell becomes its str(), a missing one the text "nan" or "NaT"; from
\* pandas 3 on str is the string dtype and a missing cell stays missing
\* (keeps_na).
AstypeStr(df, keeps_na) ==
    [i \in DOMAIN df |->
        [df[i] EXCEPT
            !.dtype = IF keeps_na THEN "str" ELSE "object",
            !.values = [j \in DOMAIN df[i].values |->
                          IF keeps_na /\ IsNA(df[i].values[j]) THEN NaN
                          ELSE PyStr(StrOf(df[i].values[j]))]]]

-----------------------------------------------------------------------------
(* The environment of one conversion *)

\* What the file system and the two libraries answer for one input file.
\* exists: os.path.exists; openpyxl, xlrd: pd.read_excel succeeds with that
\* engine; normal: lines 151-159 succeed; fallback: lines 163-164 succeed;
\* writable: pq.write_table succeeds.  in_size, out_size: what os.path.getsize
\* answers for the source and for the written file.  frame: the DataFrame
\* pd.read_excel returns for the file; keeps_na: the installed pandas keeps a
\* missing cell missing in astype(str).  With normal and fallback true, the
\* cells of the frame alone decide whether lines 151-159 and 163-164 succeed.
Env(path, exists, openpyxl, xlrd, normal, fallback, writable) ==
    [path |-> path, exists |-> exists, openpyxl |-> openpyxl,
     xlrd |-> xlrd, normal |-> normal, fallback |-> fallback, writable |-> writable,
     in_size |-> 7, out_size |-> 3, frame |-> NoFrame, keeps_na |-> FALSE]

\* a readable source holding the given frame
TableEnv(path, frame, keeps_na, writable) ==
    [Env(path, TRUE, TRUE, TRUE, TRUE, TRUE, writable)
        EXCEPT !.frame = frame, !.keeps_na = keeps_na]

NoSink == [kind |-> "none", at |-> 0, msg |-> ""]
OkSink == [kind |-> "ok", at |-> 0, msg |-> ""]
RaisingSink(k, m) == [kind |-> "raise", at |-> k, msg |-> m]

Sinks == {NoSink, OkSink} \cup {RaisingSink(k, m) : k \in 1..MaxRaiseAt, m \in SinkMsgs}

-----------------------------------------------------------------------------
(* convert_excel_to_parquet, src/converter.py:97-200, one statement a step *)

\* The activation record of one call: arguments, locals, position, and the
\* history of what it did (sink calls, library calls, stages entered).
\* df and table say which statement last assigned df_pandas and table;
\* df_pandas and columns hold their contents.
NewRun(env, output_path, sink) ==
    [env |-> env, input_path |-> env.path, output_path |-> output_path,
     arg_output |-> output_path, sink |-> sink, pc |-> "entry", clock |-> 0, start_time |-> 0,
     input_size |-> 0, df |-> "none", table |-> "none",
     df_pandas |-> NoFrame, columns |-> NoTable,
     calls |-> << >>, io |-> << >>, stages |-> << >>,
     artifact |-> FALSE, exc |-> NoError, result |-> NoResult]

\* a run that was never started (the specifications that hold no conversion)
IdleRun ==
    [NewRun(Env(NoPath, FALSE, FALSE, FALSE, FALSE, FALSE, FALSE), NoPath, NoSink)
        EXCEPT !.pc = "idle"]

\* time passes between two statements
Tick(r) == [r EXCEPT !.clock = @ + 1]

\* an exception leaves the try block for the handler at line 193
Raise(r, msg) == [r EXCEPT !.pc = "except", !.exc = msg]

\* the value each `progress_callback(...)` statement passes
CheckpointShifted(pc) ==
    CASE pc = "p10" -> 10 [] pc = "p30" -> 30 [] pc = "p50a" -> 50
      [] pc = "p50b" -> 50 [] pc = "p80" -> 40 [] pc = "p100" -> 100

Checkpoint(pc) ==
    CASE pc = "p10" -> 10 [] pc = "p30" -> 30 [] pc = "p50a" -> 50
      [] pc = "p50b" -> 50 [] pc = "p80" -> 80 [] pc = "p100" -> 100

\* `if progress_callback: progress_callback(p)`: nothing without a sink; with
\* one the value is delivered, and a sink that raises does so inside the try.
Report(r, next) ==
    IF r.sink.kind = "none"
    THEN [r EXCEPT !.pc = next]
    ELSE LET delivered == [r EXCEPT !.calls = Append(@, Checkpoint(r.pc))]
         IN  IF r.sink.kind = "raise" /\ Len(delivered.calls) = r.sink.at
             THEN Raise(delivered, r.sink.msg)
             ELSE [delivered EXCEPT !.pc = next]

\* line 106
StepEntry(r) == [r EXCEPT !.start_time = r.clock, !.pc = "exists"]

\* lines 109-110: the early return passes neither elapsed nor sizes
StepExists(r) ==
    LET q == [r EXCEPT !.io = Append(@, "exists")]
    IN  IF ~r.env.exists
        THEN [q EXCEPT !.pc = "done",
                       !.result = ConversionResult(FALSE, r.input_path, NoPath,
                                      DefaultSize, DefaultSize, DefaultElapsed, MissingMsg)]
        ELSE [q EXCEPT !.pc = "getsize"]

\* line 112
StepGetsize(r) == [r EXCEPT !.input_size = r.env.in_size, !.pc = "outpath"]

\* lines 115-117
StepOutpath(r) ==
    IF r.output_path = NoPath
    THEN [r EXCEPT !.output_path = WithParquet(SplitextBase(r.input_path)), !.pc = "p10"]
    ELSE [r EXCEPT !.pc = "p10"]

\* lines 123-124: the first engine; its failure is swallowed (line 125)
StepReadOpenpyxl(r) ==
    LET q == [r EXCEPT !.io = Append(@, "read_openpyxl"), !.stages = Append(@, "read")]
    IN  IF r.env.openpyxl
        THEN [q EXCEPT !.df = "raw", !.df_pandas = r.env.frame, !.pc = "p30"]
        ELSE [q EXCEPT !.pc = "read_xlrd"]

\* lines 125-127: the second engine; its failure reaches line 193
StepReadXlrd(r) ==
    LET q == [r EXCEPT !.io = Append(@, "read_xlrd"), !.stages = Append(@, "read")]
    IN  IF r.env.xlrd
        THEN [q EXCEPT !.df = "raw", !.df_pandas = r.env.frame, !.pc = "p30"]
        ELSE Raise(q, ReadErrorMsg)

\* line 133 followed by line 166
StepCleanSkipsBuild(r) ==
    [r EXCEPT !.df = "clean", !.df_pandas = CleanDataframeForPowerbi(r.df_pandas),
              !.stages = Append(@, "clean"), !.pc = "p80"]

\* line 133: clean_dataframe_for_powerbi; what it raises reaches line 193
StepClean(r) ==
    LET q == [r EXCEPT !.stages = Append(@, "clean")]
    IN  IF CleanRaises(r.df_pandas)
        THEN Raise([q EXCEPT !.df_pandas = CleanedUntilRaise(r.df_pandas)],
                   CleanErrorMsg)
        ELSE [q EXCEPT !.df = "clean",
                       !.df_pandas = CleanDataframeForPowerbi(r.df_pandas),
                       !.pc = "p50a"]

\* lines 142-159: the table with PyArrow's own types, cast to all-nullable
StepBuild(r) ==
    LET q == [r EXCEPT !.stages = Append(@, "build")]
    IN  IF r.env.normal /\ ~FromPandasRaises(r.df_pandas)
        THEN [q EXCEPT !.table = "native",
                       !.columns = CastAllNullable(TableFromPandas(r.df_pandas)),
                       !.pc = "p80"]
        ELSE [q EXCEPT !.pc = "fallback"]

\* lines 161-164: every column as text; a failure here reaches line 193
StepFallback(r) ==
    LET q == [r EXCEPT !.stages = Append(@, "build")]
        df_str == AstypeStr(r.df_pandas, r.env.keeps_na)
    IN  IF r.env.fallback /\ ~FromPandasRaises(df_str)
        THEN [q EXCEPT !.table = "string", !.columns = TableFromPandas(df_str),
                       !.pc = "p80"]
        ELSE Raise(q, BuildErrorMsg)

\* lines 170-176: pq.write_table either writes the whole file or raises
StepWrite(r) ==
    LET q == [r EXCEPT !.io = Append(@, "write"), !.stages = Append(@, "write")]
    IN  IF r.env.writable
        THEN [q EXCEPT !.artifact = TRUE, !.pc = "p100"]
        ELSE Raise(q, WriteErrorMsg)

\* lines 181-191
StepReturn(r) ==
    [r EXCEPT !.pc = "done", !.stages = Append(@, "done"),
              !.result = ConversionResult(TRUE, r.input_path, r.output_path,
                             r.input_size, r.env.out_size, r.clock - r.start_time, NoError)]

\* lines 193-200
StepExcept(r) ==
    [r EXCEPT !.pc = "done",
              !.result = ConversionResult(FALSE, r.input_path, NoPath,
                             DefaultSize, DefaultSize, r.clock - r.start_time, r.exc)]

\* the statement at r.pc, then the clock moves on
ConvertNext(r) ==
    Tick(CASE r.pc = "entry"         -> StepEntry(r)
           [] r.pc = "exists"        -> StepExists(r)
           [] r.pc = "getsize"       -> StepGetsize(r)
           [] r.pc = "outpath"       -> StepOutpath(r)
           [] r.pc = "p10"           -> Report(r, "read_openpyxl")
           [] r.pc = "read_openpyxl" -> StepReadOpenpyxl(r)
           [] r.pc = "read_xlrd"     -> StepReadXlrd(r)
           [] r.pc = "p30"           -> Report(r, "clean")
           [] r.pc = "clean"         -> StepClean(r)
           [] r.pc = "p50a"          -> Report(r, "p50b")
           [] r.pc = "p50b"          -> Report(r, "build")
           [] r.pc = "build"         -> StepBuild(r)
           [] r.pc = "fallback"      -> StepFallback(r)
           [] r.pc = "p80"           -> Report(r, "write")
           [] r.pc = "write"         -> StepWrite(r)
           [] r.pc = "p100"          -> Report(r, "return_ok")
           [] r.pc = "return_ok"     -> StepReturn(r)
           [] r.pc = "except"        -> StepExcept(r))

Running(r) == r.pc \notin {"idle", "done"}

\* the call has returned its ConversionResult
Done(r) == r.pc = "done"

Range(seq) == {seq[i] : i \in 1..Len(seq)}

RECURSIVE RunToEnd(_)
\* the call run to its return (each successor record is bound once, as a value)
RunToEnd(r) ==
    IF Running(r)
    THEN CHOOSE end \in {RunToEnd(next) : next \in {ConvertNext(r)}} : TRUE
    ELSE r

-----------------------------------------------------------------------------
(* Spec: one call of convert_excel_to_parquet *)

InputA == Path("data", "a", "xlsx")
GivenOutput == Path("out", "result", "parquet")

\* every answer the environment can give for one source file
Envs(path) ==
    {Env(path, ex, o, x, n, f, w) :
        ex \in BOOLEAN, o \in BOOLEAN, x \in BOOLEAN,
        n \in BOOLEAN, f \in BOOLEAN, w \in BOOLEAN}

NoBatch ==
    /\ input_files = << >>
    /\ output_dir = NoDir
    /\ max_workers = None
    /\ pool_max_workers = 0
    /\ cpu_count = 0
    /\ progress_callback = "none"
    /\ bpc = "idle"
    /\ submitted = 0
    /\ work_queue = << >>
    /\ threads = 0
    /\ idle_semaphore = 0
    /\ disk = << >>
    /\ current = << >>
    /\ releasing = << >>
    /\ future = << >>
    /\ results = << >>

NoWorker ==
    /\ wpc = "idle"
    /\ cancelled = FALSE
    /\ emitted = << >>
    /\ cancelAt = "never"

\* neither the desktop window nor the HTTP backend is running
NoApp ==
    /\ gui = << >>
    /\ web = << >>

Init ==
    /\ run \in {NewRun(e, o, s) : e \in Envs(InputA), o \in {NoPath, GivenOutput}, s \in Sinks}
    /\ NoBatch
    /\ NoWorker
    /\ NoApp

\* the caller's thread executes the next statement of the call
ConvertStep ==
    /\ Running(run)
    /\ run' = ConvertNext(run)
    /\ UNCHANGED <<batchVars, workerVars, appVars>>

Next == ConvertStep

Spec == Init /\ [][Next]_vars

-----------------------------------------------------------------------------
(* convert_multiple, src/converter.py:202-237, on a ThreadPoolExecutor *)

FileGood == InputA
FileCorrupt == Path("data", "b", "xlsx")
\* two more good workbooks, named like FileGood: an old-format one beside it
\* and one in another directory
FileOldFormat == Path("data", "a", "xls")
FileElsewhere == Path("other", "a", "xlsx")

BatchFiles == {FileGood, FileCorrupt}

\* the environment of each file a batch may name
BatchEnv(path) ==
    CASE path = FileGood    -> Env(path, TRUE, TRUE, TRUE, TRUE, TRUE, TRUE)
      [] path = FileCorrupt -> Env(path, TRUE, FALSE, FALSE, TRUE, TRUE, TRUE)
      [] path = FileOldFormat -> Env(path, TRUE, FALSE, TRUE, TRUE, TRUE, TRUE)
      [] path = FileElsewhere -> Env(path, TRUE, TRUE, TRUE, TRUE, TRUE, TRUE)

Min(a, b) == IF a <= b THEN a ELSE b

\* all sequences over S of length at most n
RECURSIVE SeqsUpTo(_, _)
SeqsUpTo(S, n) ==
    IF n = 0 THEN {<< >>}
    ELSE LET shorter == SeqsUpTo(S, n - 1)
         IN  shorter \cup {Append(q, x) : q \in {t \in shorter : Len(t) = n - 1}, x \in S}

\* lines 211-212: the pool size, defaulted when the argument is None
EffectiveWorkers(mw, cpus, files) ==
    IF mw = None
    THEN Min(IF cpus # 0 THEN cpus ELSE FallbackCpus, Len(files))
    ELSE mw

\* lines 224-226: file_progress is always handed to the conversion; it raises
\* only when the caller's callback does
FileProgress(callback) ==
    IF callback = "raise" THEN RaisingSink(1, "sink failed") ELSE OkSink

\* lines 216-228: the call process_file makes for one input
ProcessCall(input_path, dir, callback) ==
    LET output_path ==
            IF dir # NoDir
            THEN Join(dir, WithParquet(SplitextBase(Basename(input_path))))
            ELSE NoPath
    IN  NewRun(BatchEnv(input_path), output_path, FileProgress(callback))

\* lines 216-228: process_file run alone, the task each future runs
ProcessFile(input_path, dir, callback) ==
    RunToEnd(ProcessCall(input_path, dir, callback)).result

RECURSIVE RunToWrite(_)
\* the call run up to pq.write_table (line 170), or to its return when it
\* does not get there
RunToWrite(r) ==
    IF Running(r) /\ r.pc # "write"
    THEN CHOOSE at \in {RunToWrite(next) : next \in {ConvertNext(r)}} : TRUE
    ELSE r

\* RunToWrite of the call of every file a batch may name, for every output
\* directory and callback
CallsAtWrite ==
    [f \in BatchFiles \cup {FileOldFormat, FileElsewhere}, d \in {NoDir, "out"},
     c \in {"none", "ok", "raise"} |-> RunToWrite(ProcessCall(f, d, c))]

\* the file system after a file of the given size was put at path
Stored(files, path, size) ==
    [p \in DOMAIN files \cup {path} |-> IF p = path THEN size ELSE files[p]]

\* ThreadPoolExecutor._adjust_thread_count starting a thread whatever the
\* number of threads
SpawnUnbounded(n, size) == n + 1

\* ThreadPoolExecutor._adjust_thread_count after _idle_semaphore could not be
\* acquired: a thread is started unless the pool is at its size
SpawnThread(n, size) == IF n < size THEN n + 1 ELSE n

\* line 233: as_completed yields any future that is finished and not yet yielded
AsCompleted(fut) ==
    {i \in DOMAIN fut : fut[i].state = "finished" /\ ~fut[i].yielded}

\* line 235: results.append(result)
Collected(res, r) == Append(res, r)

InFlight == {t \in DOMAIN current : current[t] # 0}

BatchInit ==
    /\ input_files \in SeqsUpTo(BatchFiles, MaxFiles)
    /\ output_dir \in {NoDir, "out"}
    /\ \/ max_workers = None /\ cpu_count \in {0, 2}
       \/ max_workers \in 1..MaxWorkersArg /\ cpu_count = 2
    /\ progress_callback \in {"none", "ok", "raise"}
    /\ pool_max_workers = 0
    /\ bpc = "start"
    /\ submitted = 0
    /\ work_queue = << >>
    /\ threads = 0
    /\ idle_semaphore = 0
    /\ disk = << >>
    /\ current = << >>
    /\ releasing = << >>
    /\ future = [i \in 1..Len(input_files) |->
                    [state |-> "new", result |-> NoResult, yielded |-> FALSE]]
    /\ results = << >>
    /\ run = IdleRun
    /\ NoWorker
    /\ NoApp

\* lines 211-214 and 230: ThreadPoolExecutor(max_workers=...) raises ValueError
\* for a size that is not positive, and convert_multiple lets it through
BatchStart ==
    /\ bpc = "start"
    /\ LET size == EffectiveWorkers(max_workers, cpu_count, input_files)
       IN  IF size <= 0
           THEN /\ bpc' = "raised"
                /\ UNCHANGED pool_max_workers
           ELSE /\ bpc' = "submit"
                /\ pool_max_workers' = size
    /\ UNCHANGED <<input_files, output_dir, max_workers, cpu_count, progress_callback,
                   submitted, work_queue, threads, idle_semaphore, disk, current,
                   releasing, future, results>>
    /\ UNCHANGED <<run, workerVars, appVars>>

\* line 231: executor.submit for the next input, up to work_queue.put: the
\* future is made and queued, and a pool thread may take it at once
BatchSubmit ==
    /\ bpc = "submit"
    /\ submitted < Len(input_files)
    /\ LET i == submitted + 1
       IN  /\ submitted' = i
           /\ future' = [future EXCEPT ![i].state = "pending"]
           /\ work_queue' = Append(work_queue, i)
    /\ bpc' = "adjust"
    /\ UNCHANGED <<input_files, output_dir, max_workers, pool_max_workers, cpu_count,
                   progress_callback, threads, idle_semaphore, disk, current,
                   releasing, results>>
    /\ UNCHANGED <<run, workerVars, appVars>>

\* line 231: executor.submit goes on with _adjust_thread_count, which first
\* tries _idle_semaphore.acquire(timeout=0): with a permit taken it returns
\* and submit is done
BatchAdjust ==
    /\ bpc = "adjust"
    /\ IF idle_semaphore > 0
       THEN /\ idle_semaphore' = idle_semaphore - 1
            /\ bpc' = "submit"
       ELSE /\ bpc' = "spawn"
            /\ UNCHANGED idle_semaphore
    /\ UNCHANGED <<input_files, output_dir, max_workers, pool_max_workers, cpu_count,
                   progress_callback, submitted, work_queue, threads, disk, current,
                   releasing, future, results>>
    /\ UNCHANGED <<run, workerVars, appVars>>

\* line 231: the rest of _adjust_thread_count after the acquire failed: it
\* reads the number of threads and starts one while the pool is below its
\* size, whatever the pool threads have released since
BatchSpawn ==
    /\ bpc = "spawn"
    /\ LET n == SpawnThread(threads, pool_max_workers)
       IN  /\ threads' = n
           /\ current' = IF n > threads THEN Append(current, 0) ELSE current
           /\ releasing' = IF n > threads THEN Append(releasing, FALSE) ELSE releasing
    /\ bpc' = "submit"
    /\ UNCHANGED <<input_files, output_dir, max_workers, pool_max_workers, cpu_count,
                   progress_callback, submitted, work_queue, idle_semaphore, disk,
                   future, results>>
    /\ UNCHANGED <<run, workerVars, appVars>>

\* line 231 done, line 233 begins
BatchSubmitted ==
    /\ bpc = "submit"
    /\ submitted = Len(input_files)
    /\ bpc' = "collect"
    /\ UNCHANGED <<input_files, output_dir, max_workers, pool_max_workers, cpu_count,
                   progress_callback, submitted, work_queue, threads, idle_semaphore,
                   disk, current, releasing, future, results>>
    /\ UNCHANGED <<run, workerVars, appVars>>

\* a pool thread that waits in work_queue.get takes the oldest queued future
ThreadTake(t) ==
    /\ current[t] = 0
    /\ ~releasing[t]
    /\ work_queue # << >>
    /\ LET i == Head(work_queue)
       IN  /\ current' = [current EXCEPT ![t] = i]
           /\ future' = [future EXCEPT ![i].state = "running"]
    /\ work_queue' = Tail(work_queue)
    /\ UNCHANGED <<input_files, output_dir, max_workers, pool_max_workers, cpu_count,
                   progress_callback, bpc, submitted, threads, idle_semaphore,
                   disk, releasing, results>>
    /\ UNCHANGED <<run, workerVars, appVars>>

\* the work item of thread t ends with the given result: future.set_result
\* finishes the future; the worker has still to release _idle_semaphore
Finished(t, result) ==
    /\ future' = [future EXCEPT ![current[t]].state = "finished",
                                ![current[t]].result = result]
    /\ current' = [current EXCEPT ![t] = 0]
    /\ releasing' = [releasing EXCEPT ![t] = TRUE]

\* the thread runs process_file up to pq.write_table (line 170), which opens
\* the output file and so empties it; a call that does not get there, or
\* whose file cannot be written, runs to its return
ThreadRun(t) ==
    /\ current[t] # 0
    /\ future[current[t]].state = "running"
    /\ \E r \in {CallsAtWrite[input_files[current[t]], output_dir, progress_callback]} :
          IF Done(r) \/ ~r.env.writable
          THEN /\ \E end \in {RunToEnd(r)} : Finished(t, end.result)
               /\ UNCHANGED disk
          ELSE /\ future' = [future EXCEPT ![current[t]].state = "writing"]
               /\ disk' = Stored(disk, r.output_path, 0)
               /\ UNCHANGED <<current, releasing>>
    /\ UNCHANGED <<input_files, output_dir, max_workers, pool_max_workers, cpu_count,
                   progress_callback, bpc, submitted, work_queue, threads,
                   idle_semaphore, results>>
    /\ UNCHANGED <<run, workerVars, appVars>>

\* lines 170-176: pq.write_table writes the file and closes it
ThreadWrite(t) ==
    /\ current[t] # 0
    /\ future[current[t]].state = "writing"
    /\ \E r \in {CallsAtWrite[input_files[current[t]], output_dir, progress_callback]} :
          /\ future' = [future EXCEPT ![current[t]].state = "written"]
          /\ disk' = Stored(disk, r.output_path, r.env.out_size)
    /\ UNCHANGED <<input_files, output_dir, max_workers, pool_max_workers, cpu_count,
                   progress_callback, bpc, submitted, work_queue, threads,
                   idle_semaphore, current, releasing, results>>
    /\ UNCHANGED <<run, workerVars, appVars>>

\* lines 178-191: the last progress value, then os.path.getsize(output_path)
\* answers with the size the file has now, and the future gets the result
ThreadReturn(t) ==
    /\ current[t] # 0
    /\ future[current[t]].state = "written"
    /\ \E r \in {CallsAtWrite[input_files[current[t]], output_dir, progress_callback]} :
          \E written \in {ConvertNext([r EXCEPT !.env.out_size = disk[r.output_path]])} :
              \E end \in {RunToEnd(written)} : Finished(t, end.result)
    /\ UNCHANGED <<input_files, output_dir, max_workers, pool_max_workers, cpu_count,
                   progress_callback, bpc, submitted, work_queue, threads,
                   idle_semaphore, disk, results>>
    /\ UNCHANGED <<run, workerVars, appVars>>

\* the worker, back from the work item, releases _idle_semaphore and goes
\* on to work_queue.get
ThreadRelease(t) ==
    /\ releasing[t]
    /\ releasing' = [releasing EXCEPT ![t] = FALSE]
    /\ idle_semaphore' = idle_semaphore + 1
    /\ UNCHANGED <<input_files, output_dir, max_workers, pool_max_workers, cpu_count,
                   progress_callback, bpc, submitted, work_queue, threads, disk,
                   current, future, results>>
    /\ UNCHANGED <<run, workerVars, appVars>>

\* lines 233-235: one iteration of the as_completed loop
BatchCollect ==
    /\ bpc = "collect"
    /\ \E i \in AsCompleted(future) :
          /\ results' = Collected(results, future[i].result)
          /\ future' = [future EXCEPT ![i].yielded = TRUE]
    /\ UNCHANGED <<input_files, output_dir, max_workers, pool_max_workers, cpu_count,
                   progress_callback, bpc, submitted, work_queue, threads,
                   idle_semaphore, disk, current, releasing>>
    /\ UNCHANGED <<run, workerVars, appVars>>

\* the loop ends when every future was yielded; the with block joins the
\* threads (line 230), which end after they have released _idle_semaphore,
\* and line 237 returns
BatchReturn ==
    /\ bpc = "collect"
    /\ \A i \in DOMAIN future : future[i].yielded
    /\ \A t \in DOMAIN releasing : ~releasing[t]
    /\ bpc' = "returned"
    /\ UNCHANGED <<input_files, output_dir, max_workers, pool_max_workers, cpu_count,
                   progress_callback, submitted, work_queue, threads, idle_semaphore,
                   disk, current, releasing, future, results>>
    /\ UNCHANGED <<run, workerVars, appVars>>

BatchNext ==
    \/ BatchStart
    \/ BatchSubmit
    \/ BatchAdjust
    \/ BatchSpawn
    \/ BatchSubmitted
    \/ \E t \in DOMAIN current : ThreadTake(t)
    \/ \E t \in DOMAIN current : ThreadRun(t)
    \/ \E t \in DOMAIN current : ThreadWrite(t)
    \/ \E t \in DOMAIN current : ThreadReturn(t)
    \/ \E t \in DOMAIN current : ThreadRelease(t)
    \/ BatchCollect
    \/ BatchReturn

BatchSpec == BatchInit /\ [][BatchNext]_vars

\* The scheduling of the pool: the calling thread and every pool thread that
\* can take a step is eventually scheduled by the operating system.  Neither
\* the output directory nor the callback nor the content of the workbooks
\* takes part in the scheduling: the first two workbooks are the readable
\* one, so that two conversions go through all their steps side by side, and
\* the others are the unreadable one.
PoolInit ==
    /\ BatchInit
    /\ output_dir = NoDir
    /\ progress_callback = "ok"
    /\ \A k \in DOMAIN input_files :
          input_files[k] = IF k <= 2 THEN FileGood ELSE FileCorrupt

PoolSpec ==
    /\ PoolInit
    /\ [][BatchNext]_vars
    /\ WF_vars(BatchStart \/ BatchSubmit \/ BatchAdjust \/ BatchSpawn \/ BatchSubmitted
                   \/ BatchCollect \/ BatchReturn)
    /\ WF_vars(\E t \in DOMAIN current : ThreadTake(t))
    /\ WF_vars(\E t \in DOMAIN current :
                   ThreadRun(t) \/ ThreadWrite(t) \/ ThreadReturn(t) \/ ThreadRelease(t))

\* A batch of good workbooks whose names differ only in the directory or in
\* the extension, on the two processors, with and without an output directory.
SameNameFiles == {FileGood, FileOldFormat, FileElsewhere}

SameNameInit ==
    /\ input_files \in SeqsUpTo(SameNameFiles, MaxFiles)
    /\ output_dir \in {NoDir, "out"}
    /\ max_workers = None
    /\ cpu_count = 2
    /\ progress_callback = "none"
    /\ pool_max_workers = 0
    /\ bpc = "start"
    /\ submitted = 0
    /\ work_queue = << >>
    /\ threads = 0
    /\ idle_semaphore = 0
    /\ disk = << >>
    /\ current = << >>
    /\ releasing = << >>
    /\ future = [i \in 1..Len(input_files) |->
                    [state |-> "new", result |-> NoResult, yielded |-> FALSE]]
    /\ results = << >>
    /\ run = IdleRun
    /\ NoWorker
    /\ NoApp

SameNameSpec == SameNameInit /\ [][BatchNext]_vars

-----------------------------------------------------------------------------
(* ConversionWorker, src/main.py:33-55, and FileItem.on_cancel, 203-206 *)

\* process_queue (lines 523-527) has created the worker for the item's file,
\* without an output path, and called start(); run() has not begun.
WorkerInit ==
    /\ run \in {NewRun(e, NoPath, OkSink) : e \in Envs(InputA)}
    /\ wpc = "started"
    /\ cancelled = FALSE
    /\ emitted = << >>
    /\ cancelAt = "never"
    /\ NoBatch
    /\ NoApp

\* lines 48-49: the only place that reads _cancelled
WorkerCheck ==
    /\ wpc = "started"
    /\ wpc' = IF cancelled THEN "ended" ELSE "converting"
    /\ UNCHANGED <<run, cancelled, emitted, cancelAt, batchVars, appVars>>

\* lines 50-54: the next statement of convert_excel_to_parquet; the sink
\* emits the progress signal
WorkerConvert ==
    /\ wpc = "converting"
    /\ Running(run)
    /\ run' = ConvertNext(run)
    /\ UNCHANGED <<wpc, cancelled, emitted, cancelAt, batchVars, appVars>>

\* line 55: finished.emit(result)
WorkerEmit ==
    /\ wpc = "converting"
    /\ Done(run)
    /\ emitted' = Append(emitted, run.result)
    /\ wpc' = "ended"
    /\ UNCHANGED <<run, cancelled, cancelAt, batchVars, appVars>>

\* when cancel() is called, relative to the conversion
CancelPoint ==
    IF wpc = "started" THEN "before_run"
    ELSE IF wpc = "ended" THEN "ended"
    ELSE IF "write" \in Range(run.io) THEN "after_write"
    ELSE "before_write"

\* lines 44-45, called by FileItem.on_cancel on the GUI thread at any time
Cancel ==
    /\ ~cancelled
    /\ cancelled' = TRUE
    /\ cancelAt' = CancelPoint
    /\ UNCHANGED <<run, wpc, emitted, batchVars, appVars>>

WorkerNext ==
    \/ WorkerCheck
    \/ WorkerConvert
    \/ WorkerEmit
    \/ Cancel

WorkerSpec == WorkerInit /\ [][WorkerNext]_vars

-----------------------------------------------------------------------------
(* MainWindow, FileItem and their workers, src/main.py:33-55, 57-258, 350-561 *)

\* most FileItems created
MaxItems == 3

\* lines 555 (and src/backend/main.py:87): the history keeps the first 50
HistoryLimit == 50

\* lines 546-552: the entry of a successful result (without the wall-clock
\* time of line 552)
HistoryEntry(result) ==
    [input_file |-> result.input_file, output_file |-> result.output_file,
     input_size |-> result.input_size, output_size |-> result.output_size,
     elapsed |-> result.elapsed]

\* the k-th newest entry the application stored in an earlier session
OldEntry(k) ==
    [input_file |-> Path("old", ToString(k), "xlsx"),
     output_file |-> Path("old", ToString(k), "parquet"),
     input_size |-> 7, output_size |-> 3, elapsed |-> 1]

\* lines 536-542: history.json as an earlier session left it, n entries
StoredHistory(n) == [k \in 1..n |-> OldEntry(k)]

\* history[:50]
Truncated(h) == SubSeq(h, 1, Min(Len(h), HistoryLimit))

\* lines 544-561: save_to_history
SaveToHistory(h, result) ==
    IF result.success THEN Truncated(<<HistoryEntry(result)>> \o h) ELSE h

\* lines 61-66: a new FileItem; result is None, it has no attribute
\* `processing`, no worker.  worker is the position of its ConversionWorker's
\* thread, cancelled that worker's _cancelled, deleted whether the widget was
\* destroyed (deleteLater carried out).
FileItem(filename) ==
    [filename |-> filename, result |-> NoResult, has_processing |-> FALSE,
     worker |-> "none", cancelled |-> FALSE, deleted |-> FALSE]

\* lines 351-358: the window after construction.  items are all FileItems
\* created, in order; queue holds indexes into items; events are the events
\* posted to the GUI thread and not yet delivered; started (the items in the
\* order their workers were started) and log (the entry of every successful
\* result since the start, newest first) are history.
NewWindow(history) ==
    [queue |-> << >>, items |-> << >>, processing |-> FALSE, current_worker |-> 0,
     events |-> << >>, history |-> history, started |-> << >>, log |-> << >>,
     aborted |-> FALSE]

\* lines 509-513: the positions in the queue of the items that wait
PendingAt(g) ==
    {k \in 1..Len(g.queue) :
        /\ g.items[g.queue[k]].result = NoResult
        /\ ~g.items[g.queue[k]].has_processing}

\* the start of a worker for the item at position k (lines 518-527)
StartWorker(g, k) ==
    LET i == g.queue[k]
    IN  [g EXCEPT !.processing = TRUE,
                  !.items[i].has_processing = TRUE,
                  !.items[i].worker = "started",
                  !.current_worker = i,
                  !.started = Append(@, i)]

\* lines 504-527 without the test of self.processing
ProcessQueueUnguarded(g) ==
    IF PendingAt(g) = {}
    THEN g
    ELSE StartWorker(g, CHOOSE k \in PendingAt(g) : \A m \in PendingAt(g) : k <= m)

\* lines 504-527: process_queue
ProcessQueue(g) ==
    IF g.processing \/ PendingAt(g) = {}
    THEN g
    ELSE StartWorker(g, CHOOSE k \in PendingAt(g) : \A m \in PendingAt(g) : k <= m)

\* list.remove(item) followed by item.deleteLater(), which posts the deletion
Removed(g, i) ==
    [g EXCEPT !.queue = SelectSeq(g.queue, LAMBDA j : j # i),
              !.events = Append(@, [kind |-> "delete", item |-> i, result |-> NoResult])]

\* lines 485-488
RemoveFromQueue(g, i) == IF i \in Range(g.queue) THEN Removed(g, i) ELSE g

\* an item that clear_queue removes whatever its state
ClearableAlways(item) == TRUE

\* line 496: the items clear_queue removes, those done and those not started
Clearable(item) == item.result # NoResult \/ ~item.has_processing

RECURSIVE ClearFrom(_, _)
\* lines 495-498: the loop over a copy of the queue
ClearFrom(g, copy) ==
    IF copy = << >> THEN g
    ELSE LET item == g.items[Head(copy)]
         IN  IF Clearable(item)
             THEN ClearFrom(Removed(g, Head(copy)), Tail(copy))
             ELSE ClearFrom(g, Tail(copy))

\* what the worker of an item returns (lines 50-54): the conversion of its
\* file without an output path
WorkerResult(filename) == RunToEnd(NewRun(BatchEnv(filename), NoPath, OkSink)).result

\* the program started with n entries in history.json
QueueStart(n) ==
    /\ gui = NewWindow(StoredHistory(n))
    /\ web = << >>
    /\ run = IdleRun
    /\ NoBatch
    /\ NoWorker

\* the first start of the program
QueueInit == QueueStart(0)

\* lines 472-483: add_files with the files dropped or chosen
AddFiles(files) ==
    /\ ~gui.aborted
    /\ Len(gui.items) + Len(files) <= MaxItems
    /\ LET n == Len(gui.items)
           added == [gui EXCEPT
                       !.items = @ \o [k \in 1..Len(files) |-> FileItem(files[k])],
                       !.queue = @ \o [k \in 1..Len(files) |-> n + k]]
       IN  gui' = ProcessQueue(added)
    /\ UNCHANGED <<run, batchVars, workerVars, web>>

\* the cancel button of an item can be clicked until set_converting (line
\* 219) hides it when the item is started; set_done (line 227) hides it too
CancelVisible(item) == ~item.has_processing /\ item.result = NoResult

\* a click on the cancel button of item i: lines 203-206, then
\* remove_from_queue (lines 485-492) through the signal
OnCancel(i) ==
    /\ ~gui.aborted
    /\ i \in Range(gui.queue)
    /\ CancelVisible(gui.items[i])
    /\ LET told == IF gui.items[i].worker # "none"
                   THEN [gui EXCEPT !.items[i].cancelled = TRUE]
                   ELSE gui
       IN  gui' = RemoveFromQueue(told, i)
    /\ UNCHANGED <<run, batchVars, workerVars, web>>

\* lines 494-502: clear_queue
ClearQueue ==
    /\ ~gui.aborted
    /\ gui.queue # << >>
    /\ gui' = ClearFrom(gui, gui.queue)
    /\ UNCHANGED <<run, batchVars, workerVars, web>>

\* lines 47-49: the worker thread of item i begins run()
QueueWorkerCheck(i) ==
    /\ ~gui.aborted
    /\ gui.items[i].worker = "started"
    /\ gui' = [gui EXCEPT !.items[i].worker =
                              IF gui.items[i].cancelled THEN "ended" ELSE "converting"]
    /\ UNCHANGED <<run, batchVars, workerVars, web>>

\* lines 50-55: the conversion, then finished.emit(result), which posts the
\* call of on_conversion_done to the GUI thread
QueueWorkerRun(i) ==
    /\ ~gui.aborted
    /\ gui.items[i].worker = "converting"
    /\ gui' = [gui EXCEPT
                 !.items[i].worker = "ended",
                 !.events = Append(@, [kind |-> "finished", item |-> i,
                                       result |-> WorkerResult(gui.items[i].filename)])]
    /\ UNCHANGED <<run, batchVars, workerVars, web>>

\* the event loop carries out a posted deletion
DeliverDelete ==
    /\ ~gui.aborted
    /\ gui.events # << >>
    /\ Head(gui.events).kind = "delete"
    /\ gui' = [gui EXCEPT !.events = Tail(@), !.items[Head(gui.events).item].deleted = TRUE]
    /\ UNCHANGED <<run, batchVars, workerVars, web>>

\* lines 529-534: on_conversion_done.  set_done (lines 224-254) on a widget
\* that was destroyed raises RuntimeError in the slot, which ends the
\* application.
OnConversionDone ==
    /\ ~gui.aborted
    /\ gui.events # << >>
    /\ Head(gui.events).kind = "finished"
    /\ LET i == Head(gui.events).item
           result == Head(gui.events).result
       IN  IF gui.items[i].deleted
           THEN gui' = [gui EXCEPT !.events = Tail(@), !.aborted = TRUE]
           ELSE gui' = ProcessQueue(
                         [gui EXCEPT
                            !.events = Tail(@),
                            !.items[i].result = result,
                            !.history = SaveToHistory(@, result),
                            !.log = IF result.success
                                    THEN <<HistoryEntry(result)>> \o @ ELSE @,
                            !.processing = FALSE])
    /\ UNCHANGED <<run, batchVars, workerVars, web>>

QueueNext ==
    \/ \E files \in SeqsUpTo(BatchFiles, 2) \ {<< >>} : AddFiles(files)
    \/ \E i \in DOMAIN gui.items : OnCancel(i)
    \/ ClearQueue
    \/ \E i \in DOMAIN gui.items : QueueWorkerCheck(i)
    \/ \E i \in DOMAIN gui.items : QueueWorkerRun(i)
    \/ DeliverDelete
    \/ OnConversionDone

QueueSpec == QueueInit /\ [][QueueNext]_vars

\* Every started thread is scheduled and the event loop delivers every posted
\* event; the user is free to do nothing.
QueueFairSpec ==
    /\ QueueInit
    /\ [][QueueNext]_vars
    /\ WF_vars(\E i \in DOMAIN gui.items : QueueWorkerCheck(i))
    /\ WF_vars(\E i \in DOMAIN gui.items : QueueWorkerRun(i))
    /\ WF_vars(DeliverDelete \/ OnConversionDone)

-----------------------------------------------------------------------------
(* The HTTP backend, src/backend/main.py.  A handler is `async def` without
   an await inside, so each request runs from its start to its response
   before the next one is served.  Strings are sequences of tokens. *)

\* most POST /convert requests that get an id
MaxConverts == 2

\* the length of a file id in tokens (str(uuid.uuid4()) has 36 characters,
\* all ids have the same length)
IdLen == 2

\* the characters of an id
IdAlphabet == {"a", "b"}

\* every string of exactly n tokens over S
Strings(S, n) == {s \in SeqsUpTo(S, n) : Len(s) = n}

\* line 49: the values uuid4 can give
FileIds == Strings(IdAlphabet, IdLen)

\* str.startswith
StartsWith(s, prefix) ==
    /\ Len(prefix) <= Len(s)
    /\ SubSeq(s, 1, Len(prefix)) = prefix

\* f"{file_id}_{name}", lines 50 and 52
Prefixed(file_id, name) == file_id \o <<"_">> \o name

\* the file_id of a request path: the ids, their proper prefixes, the strings
\* that go past an id into the file name, and a string that is none of these
RequestIds ==
    {s \in SeqsUpTo(IdAlphabet \cup {"_"}, IdLen + 1) \ {<< >>} :
        \/ \E id \in FileIds : StartsWith(Prefixed(id, << >>), s)
        \/ s = <<"_">>}

\* str.endswith(('.xlsx', '.xls')), line 46
IsExcelName(filename) == filename[Len(filename)] \in {".xlsx", ".xls"}

\* os.path.splitext(filename)[0] + ".parquet", line 51
OutputFilename(filename) == Append(SubSeq(filename, 1, Len(filename) - 1), ".parquet")

\* the uploads a client may send: a workbook, a file that is no workbook
\* under an Excel name, and a file with another extension
UploadFiles ==
    {[filename |-> <<"r", ".xlsx">>, readable |-> TRUE],
     [filename |-> <<"b", ".xls">>, readable |-> FALSE],
     [filename |-> <<"n", ".txt">>, readable |-> TRUE]}

\* where a request may fail for a reason outside the upload: nowhere, in
\* df.to_parquet before the file is created (line 65), in load_history
\* (lines 74, 121), in save_history (lines 88, 123) when it opens
\* history.json (line 37), or in json.dump (line 38) after the open has
\* emptied the file
FailurePoints == {"none", "write", "load", "save", "dump"}

\* lines 30-34: load_history raises when the environment makes it fail and
\* whenever history.json holds no JSON; a request that fails before it calls
\* load_history fails there
FailureAt(w, fails) == IF ~w.parses /\ fails # "write" THEN "load" ELSE fails

\* lines 36-38: history.json after save_history failed in json.dump
Emptied(w) == [w EXCEPT !.history = << >>, !.parses = FALSE]

\* lines 75-84 (without the clock values)
WebEntry(file_id, filename) ==
    [id |-> file_id, original_name |-> filename,
     converted_name |-> OutputFilename(filename),
     original_size |-> 7, converted_size |-> 3,
     download_url |-> <<"/download/">> \o file_id]

\* the id of the k-th newest conversion of an earlier run of the server
OldId(k) == <<"o", ToString(k)>>

\* history.json and converted/ as an earlier run of the server left them
OldWebHistory(n) == [k \in 1..n |-> WebEntry(OldId(k), <<"old", ".xlsx">>)]
OldConverted(n) == {Prefixed(OldId(k), <<"old", ".parquet">>) : k \in 1..n}

\* lines 23-28: the server after start.  uploads and converted are the names
\* in the two directories, history the content of history.json and parses
\* whether that content is JSON (a file that a failed write left empty is
\* not); issued (the
\* ids given so far), response (the last response, with the id of the request
\* when it was a conversion) and log (the entry of
\* every conversion that answered 200 since the start, newest first) are
\* history.
NewServer(n) ==
    [uploads |-> {}, converted |-> OldConverted(n), history |-> OldWebHistory(n),
     parses |-> TRUE, issued |-> {},
     response |-> [op |-> "none", status |-> 0, file_id |-> << >>, file |-> << >>],
     log |-> << >>]

\* lines 85-87: history.insert(0, entry); history = history[:50]
Inserted(history, entry) == Truncated(<<entry>> \o history)

\* line 108 and line 126: the artifacts a file_id selects
Matching(w, file_id) == {f \in w.converted : StartsWith(f, file_id)}

\* the status GET /download/{file_id} answers with (lines 108-110)
DownloadStatus(w, file_id) == IF Matching(w, file_id) = {} THEN 404 ELSE 200

\* the server started with n entries in history.json
WebStart(n) ==
    /\ web = NewServer(n)
    /\ gui = << >>
    /\ run = IdleRun
    /\ NoBatch
    /\ NoWorker

\* the first start of the server
WebInit == WebStart(0)

\* lines 44-103: POST /convert.  A uuid4 value is new.
Convert(upload, file_id, fails) ==
    /\ Cardinality(web.issued) < MaxConverts
    /\ file_id \notin web.issued
    /\ LET filename == upload.filename
           input_path == Prefixed(file_id, filename)
           output_path == Prefixed(file_id, OutputFilename(filename))
           failure == IF ~upload.readable THEN "read" ELSE FailureAt(web, fails)
           respond(w, status) ==
               [w EXCEPT !.response = [op |-> "convert", status |-> status,
                                       file_id |-> file_id, file |-> filename]]
           \* lines 58-59
           saved == [web EXCEPT !.issued = @ \cup {file_id},
                                !.uploads = @ \cup {input_path}]
           \* line 65
           written == [saved EXCEPT !.converted = @ \cup {output_path}]
           \* line 71
           removed == [written EXCEPT !.uploads = @ \ {input_path}]
           \* lines 101-102
           cleaned(w) == [w EXCEPT !.uploads = @ \ {input_path}]
       IN  IF ~IsExcelName(filename)
           THEN web' = [web EXCEPT !.response = [op |-> "convert", status |-> 400,
                                                  file_id |-> << >>, file |-> filename]]
           ELSE CASE failure \in {"read", "write"} -> web' = respond(cleaned(saved), 500)
                  [] failure \in {"load", "save"} -> web' = respond(cleaned(removed), 500)
                  [] failure = "dump" -> web' = respond(Emptied(cleaned(removed)), 500)
                  [] OTHER ->
                       web' = respond(
                                [removed EXCEPT
                                   !.history = Inserted(@, WebEntry(file_id, filename)),
                                   !.log = <<WebEntry(file_id, filename)>> \o @],
                                200)
    /\ UNCHANGED <<run, batchVars, workerVars, gui>>

\* lines 105-117: GET /download/{file_id}; files[0] is any of the matching
\* names (os.listdir gives them in arbitrary order)
Download(file_id) ==
    /\ \/ /\ Matching(web, file_id) = {}
          /\ web' = [web EXCEPT !.response = [op |-> "download", status |-> 404,
                                              file_id |-> << >>, file |-> << >>]]
       \/ \E f \in Matching(web, file_id) :
              web' = [web EXCEPT !.response = [op |-> "download", status |-> 200,
                                               file_id |-> << >>, file |-> f]]
    /\ UNCHANGED <<run, batchVars, workerVars, gui>>

\* lines 119-130: DELETE /history/{file_id}.  What load_history (line 121)
\* or save_history (line 123) raises leaves the handler before any artifact
\* is removed, and the request is answered with 500; history.json is as it
\* was unless json.dump failed on the file that save_history had emptied.
DeleteHistoryItem(file_id, fails) ==
    /\ LET failure == FailureAt(web, fails)
           respond(w, status) ==
               [w EXCEPT !.response = [op |-> "delete", status |-> status,
                                       file_id |-> << >>, file |-> << >>]]
       IN  CASE failure \in {"load", "save"} -> web' = respond(web, 500)
             [] failure = "dump" -> web' = respond(Emptied(web), 500)
             [] OTHER ->
                  web' = respond(
                           [web EXCEPT
                              !.history = SelectSeq(@, LAMBDA h : h.id # file_id),
                              !.converted = @ \ Matching(web, file_id)],
                           200)
    /\ UNCHANGED <<run, batchVars, workerVars, gui>>

WebNext ==
    \/ \E upload \in UploadFiles, file_id \in FileIds :
           \E fails \in IF upload.readable /\ IsExcelName(upload.filename)
                         THEN FailurePoints ELSE {"none"} :
               Convert(upload, file_id, fails)
    \/ \E file_id \in RequestIds : Download(file_id)
    \/ \E file_id \in RequestIds, fails \in FailurePoints \ {"write"} :
           DeleteHistoryItem(file_id, fails)

WebSpec == WebInit /\ [][WebNext]_vars

-----------------------------------------------------------------------------
(* HistorySpec: either program is run, the desktop window or the server,
   with a history that earlier runs have filled up to one entry below the
   limit *)

HistoryInit == QueueStart(HistoryLimit - 1) \/ WebStart(HistoryLimit - 1)

HistoryNext ==
    \/ DOMAIN gui # {} /\ QueueNext
    \/ DOMAIN web # {} /\ WebNext

HistorySpec == HistoryInit /\ [][HistoryNext]_vars

-----------------------------------------------------------------------------
(* TableSpec: one conversion of a readable source, for every table content *)

\* most rows of a table
MaxRows == 2

\* The cells pd.read_excel leaves in a column of each dtype.  Text that pandas
\* takes for a missing value ("", "NaN", "None", "NULL", ...) is read as NaN and
\* numeric text makes a numeric column, so the text of an object column is
\* neither; "none" in lower case is ordinary text to pandas.
Int64Cells == {PyInt(1), PyInt(2)}
Float64Cells == {PyFloat(10), PyFloat(25), NaN, Inf}
BoolCells == {PyBool(TRUE), PyBool(FALSE)}
DatetimeCells == {Ts(1), NaT}
ObjectCells == {PyStr("x"), PyStr("none"), NaN, PyInt(1)}

\* a float with no fractional part
IsIntegral(c) == c.k = "int" \/ (c.k = "float" /\ c.n % 10 = 0)

\* The columns of n rows the reader can return (dtype and cells): an int64 or
\* bool column has no missing cell, a column of whole numbers without a
\* missing cell is int64 and never float64, and a column is object only when
\* some cell is text.
ReadColumns(n) ==
    {[dtype |-> "int64", values |-> v] : v \in [1..n -> Int64Cells]}
    \cup {[dtype |-> "float64", values |-> v] :
            v \in {w \in [1..n -> Float64Cells] : \E j \in 1..n : ~IsIntegral(w[j])}}
    \cup {[dtype |-> "bool", values |-> v] : v \in [1..n -> BoolCells]}
    \cup {[dtype |-> "datetime64[ns]", values |-> v] : v \in [1..n -> DatetimeCells]}
    \cup {[dtype |-> "object", values |-> v] :
            v \in {w \in [1..n -> ObjectCells] : \E j \in 1..n : w[j].k = "str"}}

\* the columns put beside the column under study: a float column whose first
\* cell is missing, and a column of text followed by numbers
Companions(n) ==
    {[dtype |-> "float64", values |-> [j \in 1..n |-> IF j = 1 THEN NaN ELSE PyFloat(25)]],
     [dtype |-> "object",  values |-> [j \in 1..n |-> IF j = 1 THEN PyStr("x") ELSE PyInt(j)]]}

\* header cells: text, text that is a number, and a number; the reader
\* returns pairwise different labels (it renames repeated ones)
Labels == {PyStr("a"), PyStr("1"), PyInt(1)}

\* the frames of n rows: one column, or a column and a companion in either order
FramesOf(n) ==
    {<<Series(h, c.dtype, c.values)>> : h \in Labels, c \in ReadColumns(n)}
    \cup {<<Series(h[1], p[1].dtype, p[1].values), Series(h[2], p[2].dtype, p[2].values)>> :
            h \in {g \in Labels \X Labels : g[1] # g[2]},
            p \in (ReadColumns(n) \X Companions(n)) \cup (Companions(n) \X ReadColumns(n))}

Frames == UNION {FramesOf(n) : n \in 1..MaxRows}

TableInit ==
    /\ run \in {NewRun(TableEnv(InputA, f, k, w), NoPath, NoSink) :
                  f \in Frames, k \in BOOLEAN, w \in BOOLEAN}
    /\ NoBatch
    /\ NoWorker
    /\ NoApp

TableSpec == TableInit /\ [][Next]_vars

-----------------------------------------------------------------------------
(* Claims about one conversion, checked under Spec *)

\* the call left the try block through an exception
Raised(r) == r.exc # NoError

NonDecreasing(seq) == \A i, j \in 1..Len(seq) : i < j => seq[i] <= seq[j]

Rank(stage) ==
    CASE stage = "read" -> 1 [] stage = "clean" -> 2 [] stage = "build" -> 3
      [] stage = "write" -> 4 [] stage = "done" -> 5

\* C1: the call is total, and whenever a stage raised, the result it returns
\* has success = false and a non-empty error detail.
C1_TotalWithErrorDetail ==
    /\ ~Running(run) => Done(run)
    /\ Done(run) /\ Raised(run) =>
          /\ run.result.success = FALSE
          /\ run.result.error # NoError
          /\ run.result.error # ""

\* C2: a run that returns success = false has produced no output artifact.
C2_NoArtifactOnFailure ==
    Done(run) /\ ~run.result.success => ~run.artifact

\* C3: the stages run in the order read, clean, build, write, done; the writer
\* is invoked at most once and only after the read, the cleaning and the table
\* construction have completed; no earlier stage is entered after a later one.
C3_StagesInOrder ==
    LET st == run.stages
    IN  /\ \A i, j \in 1..Len(st) : i < j => Rank(st[i]) <= Rank(st[j])
        /\ Cardinality({i \in 1..Len(st) : st[i] = "write"}) <= 1
        /\ "write" \in Range(st) =>
              /\ {"read", "clean", "build"} \subseteq Range(st)
              /\ run.df = "clean"
              /\ run.table # "none"
        /\ "done" \in Range(st) => "write" \in Range(st) /\ run.artifact

\* a successful run that needed the second engine and the string fallback
C3_Witness ==
    /\ Done(run)
    /\ run.stages = <<"read", "read", "clean", "build", "build", "write", "done">>

\* C4 as claimed: the delivered values never decrease, and a successful run
\* reports exactly the checkpoints 0, 10, 30, 50, 80, 100.
C4_CheckpointsFromZero ==
    /\ NonDecreasing(run.calls)
    /\ Done(run) /\ run.result.success /\ run.sink.kind # "none" =>
          Range(run.calls) = {0, 10, 30, 50, 80, 100}

\* C4 amended: the delivered values never decrease, and a successful run
\* delivers exactly 10, 30, 50, 50, 80, 100 (0 is never delivered).
C4_Checkpoints ==
    /\ NonDecreasing(run.calls)
    /\ Done(run) /\ run.result.success /\ run.sink.kind # "none" =>
          run.calls = <<10, 30, 50, 50, 80, 100>>

C4_Witness ==
    Done(run) /\ run.result.success /\ run.sink.kind = "ok" /\ Len(run.calls) = 6

\* C5: a run with any sink makes the same library calls and returns the same
\* success flag, output descriptor and error detail as the run without a sink
\* on the same input, output path and environment.
C5_SinkIsBestEffort ==
    Done(run) =>
        LET ref == RunToEnd(NewRun(run.env, run.arg_output, NoSink))
        IN  /\ run.io = ref.io
            /\ run.result.success = ref.result.success
            /\ run.result.output_file = ref.result.output_file
            /\ run.result.error = ref.result.error

\* C6: every failed outcome has the same shape: success = false, the input
\* descriptor, no output descriptor, an error detail, and the elapsed time
\* from the start of the call to the failure.
C6_UniformFailure ==
    Done(run) /\ ~run.result.success =>
        /\ run.result.input_file = run.input_path
        /\ run.result.output_file = NoPath
        /\ run.result.error # NoError
        /\ run.result.elapsed = (run.clock - 1) - run.start_time

-----------------------------------------------------------------------------
(* Claims about convert_multiple, checked under BatchSpec and PoolSpec *)

\* how many entries of seq satisfy Test
CountIn(seq, Test(_)) == Cardinality({k \in 1..Len(seq) : Test(seq[k])})

\* what a stand-alone convert_excel_to_parquet call on the i-th input returns,
\* given the output path and sink process_file hands it
Standalone(i) == ProcessFile(input_files[i], output_dir, progress_callback)

\* C7: convert_multiple returns one outcome per input, for every collection
\* (the empty one included) and every max_workers, given or defaulted: the
\* list is as long as the inputs and names the same inputs as often.
C7_OneOutcomePerInput ==
    /\ bpc # "raised"
    /\ bpc = "returned" =>
          /\ Len(results) = Len(input_files)
          /\ \A p \in BatchFiles :
                LET IsP(r) == r.input_file = p
                    NamesP(f) == f = p
                IN  CountIn(results, IsP) = CountIn(input_files, NamesP)

\* C8: under every interleaving, each file's outcome is the one a stand-alone
\* call on it returns, whatever happens to the other files: no future is
\* dropped or cancelled and the returned list holds exactly those outcomes.
C8_BatchIsolation ==
    /\ \A i \in DOMAIN future :
          /\ future[i].state \in {"new", "pending", "running", "writing", "written", "finished"}
          /\ future[i].state = "finished" => future[i].result = Standalone(i)
    /\ bpc = "returned" =>
          /\ \A i \in DOMAIN future : future[i].state = "finished"
          /\ \A i \in DOMAIN future :
                LET IsMine(r) == r = Standalone(i)
                IN  CountIn(results, IsMine)
                      = Cardinality({j \in DOMAIN future : Standalone(j) = Standalone(i)})
          /\ LET Failed(r) == ~r.success
             IN  CountIn(results, Failed)
                   = Cardinality({j \in DOMAIN future : ~Standalone(j).success})

\* a pool thread runs, or has run, the i-th input
Started(i) ==
    i \in DOMAIN future /\ future[i].state \in {"running", "writing", "written", "finished"}

\* C9: the conversions in flight never exceed max_workers, which defaults to
\* min(available parallelism, number of inputs); and every file of the batch
\* is eventually run by some worker, unless the pool could not be created.
C9_BoundedConcurrency ==
    /\ [](/\ Cardinality(InFlight) <= EffectiveWorkers(max_workers, cpu_count, input_files)
          /\ threads <= EffectiveWorkers(max_workers, cpu_count, input_files))
    /\ <>[](bpc = "raised" \/ \A i \in DOMAIN future : Started(i))

\* the pool is full (size defaulted to the two processors) and a file waits
C9_Witness ==
    /\ max_workers = None
    /\ cpu_count = 2
    /\ Len(input_files) = 3
    /\ Cardinality(InFlight) = 2
    /\ pool_max_workers = 2
    /\ work_queue # << >>

-----------------------------------------------------------------------------
(* Claims about cancellation, checked under WorkerSpec *)

\* C10: once cancel() was requested on a conversion in flight whose writer was
\* not yet invoked, the writer is never invoked, no artifact is produced, and
\* the conversion ends with a failed (cancelled) outcome given to the caller.
C10_CancelStopsBeforeWrite ==
    cancelAt = "before_write" =>
        /\ "write" \notin Range(run.io)
        /\ ~run.artifact
        /\ wpc = "ended" => Len(emitted) = 1 /\ ~emitted[1].success

-----------------------------------------------------------------------------
(* Claims about the table handed to the writer, checked under TableSpec *)

\* the frame pd.read_excel returned to this run
Source == run.env.frame

\* the table was built (lines 151-159 or 163-164 completed)
Built == run.table # "none"

\* pq.write_table was called with the table
Handed == "write" \in Range(run.io)

\* the Arrow type a value belongs to
ValueType(c) ==
    CASE c.k = "int" -> "int64"
      [] c.k \in {"float", "inf"} -> "double"
      [] c.k = "bool" -> "bool"
      [] c.k = "ts" -> "timestamp[ns]"
      [] c.k = "str" -> "string"
      [] OTHER -> "none"

\* C11: every field of every schema handed to the writer is nullable, also for
\* a column without an absent value, on the normal and on the string-fallback
\* path; so is every field create_powerbi_compatible_schema builds for the
\* cleaned frame.
C11_NullableEverywhere ==
    /\ Built => \A i \in DOMAIN run.columns : run.columns[i].nullable
    /\ run.df = "clean" =>
          LET schema == CreatePowerbiCompatibleSchema(run.df_pandas)
          IN  /\ Len(schema) = Len(run.df_pandas)
              /\ \A i \in DOMAIN schema : schema[i].nullable

\* a native table was written whose two columns hold no absent value
C11_Witness ==
    /\ Handed
    /\ run.table = "native"
    /\ Len(run.columns) = 2
    /\ \A i \in DOMAIN Source : \A j \in DOMAIN Source[i].values : ~IsNA(Source[i].values[j])
    /\ \A i \in DOMAIN run.columns : run.columns[i].nullable

C13_TotalityOfCoercion ==
    Done(run) /\ run.df # "none" /\ run.env.writable => run.result.success

\* C14: in every column carried as string, each cell that was absent in the
\* source is written as null, never as text ("nan", "NaT", "").
C14_AbsentStaysNull ==
    Built =>
        \A i \in DOMAIN run.columns :
            run.columns[i].type = "string" =>
                \A j \in DOMAIN run.columns[i].values :
                    IsNA(Source[i].values[j]) => run.columns[i].values[j] = Null

\* C15: cleaning, the cast and the string fallback keep every row: each column
\* of the cleaned frame and of the table handed to the writer has as many
\* values as the column the reader returned.
C15_NoRowLoss ==
    /\ run.df # "none" =>
          /\ Len(run.df_pandas) = Len(Source)
          /\ \A i \in DOMAIN run.df_pandas :
                Len(run.df_pandas[i].values) = Len(Source[i].values)
    /\ Built =>
          /\ Len(run.columns) = Len(Source)
          /\ \A i \in DOMAIN run.columns :
                Len(run.columns[i].values) = Len(Source[i].values)

\* a table of two columns and two rows, one cell missing, was written
C15_Witness ==
    /\ Handed
    /\ Len(Source) = 2
    /\ \A i \in DOMAIN run.columns : Len(run.columns[i].values) = 2
    /\ \E i \in DOMAIN Source : \E j \in DOMAIN Source[i].values : IsNA(Source[i].values[j])
    /\ \E i \in DOMAIN run.columns : \E j \in DOMAIN run.columns[i].values :
          run.columns[i].values[j] = Null

\* C16: for every frame read, the schema has one field per source column in
\* the source order, each named by the string form of its header; headers
\* that are equal as strings are passed through, not renamed or rejected.
C16_SchemaFollowsHeaders ==
    Done(run) /\ run.df # "none" =>
        /\ Len(run.columns) = Len(Source)
        /\ \A i \in DOMAIN run.columns : run.columns[i].name = StrOf(Source[i].name)

\* the texts the Cell Normalizer takes for "no data" (of the reader's texts
\* only lower-case ones without surrounding blanks are in the frames)
SentinelTexts == {"nan", "none", "nat", "null", ""}

\* an infinity, a floating NaN or a sentinel text
IsSentinel(c) == c.k \in {"inf", "nan"} \/ (c.k = "str" /\ c.s \in SentinelTexts)

\* C17: every cell that is an infinity, a NaN or a sentinel text is written as
\* null, never as a value.
C17_SentinelsBecomeNull ==
    Handed =>
        \A i \in DOMAIN run.columns : \A j \in DOMAIN run.columns[i].values :
            IsSentinel(Source[i].values[j]) => run.columns[i].values[j] = Null

\* absent after normalization
IsAbsent(c) == IsNA(c) \/ IsSentinel(c)

\* the whole number a numeric cell stands for
WholeNumber(c) == IF c.k = "int" THEN PyInt(c.n) ELSE PyInt(c.n \div 10)

\* C18: a column whose present cells are all whole numbers is written as int64
\* with its absent cells null, also when the reader delivered floats.
C18_IntegralFloatsAreInt64 ==
    Handed =>
        \A i \in DOMAIN run.columns :
            LET cells == Source[i].values
                present == {j \in DOMAIN cells : ~IsAbsent(cells[j])}
            IN  (present # {} /\ \A j \in present : IsIntegral(cells[j])) =>
                    /\ run.columns[i].type = "int64"
                    /\ \A j \in DOMAIN cells :
                          run.columns[i].values[j] =
                              IF j \in present THEN WholeNumber(cells[j]) ELSE Null

\* the frame with its rows in the order p
Permuted(df, p) ==
    [i \in DOMAIN df |->
        [df[i] EXCEPT !.values = [j \in DOMAIN df[i].values |-> df[i].values[p[j]]]]]

Types(table) == [i \in DOMAIN table |-> table[i].type]

\* the column types of the table a conversion of the frame builds
Resolved(df, keeps_na) ==
    Types(RunToEnd(NewRun(TableEnv(InputA, df, keeps_na, TRUE), NoPath, NoSink)).columns)

\* C19: the conversion of the same frame with its rows in any other order
\* gives every column the same type.
C19_OrderIndependent ==
    Built =>
        \A p \in Permutations(DOMAIN Source[1].values) :
            Resolved(Permuted(Source, p), run.env.keeps_na) = Types(run.columns)

\* a table was written that has a column whose two cells are of different kinds
C19_Witness ==
    /\ Handed
    /\ \E i \in DOMAIN Source :
          /\ Len(Source[i].values) = 2
          /\ Source[i].values[1].k = "int"
          /\ Source[i].values[2].k = "str"
          /\ run.columns[i].type = "string"

\* C20: when the string fallback is taken, every column that converts on its
\* own keeps the native type and values it has without the failure.
C20_FallbackConfined ==
    run.table = "string" =>
        \A i \in DOMAIN run.columns :
            ArrowType(run.df_pandas[i]) # "error" =>
                run.columns[i] = CastAllNullable(TableFromPandas(<<run.df_pandas[i]>>))[1]

-----------------------------------------------------------------------------
(* Claims about the artifacts of a batch, checked under SameNameSpec *)

\* the path the conversion of the i-th input writes (lines 115-117, 217-222)
OutputOf(i) == RunToEnd(NewRun(BatchEnv(input_files[i]), 
                   IF output_dir # NoDir
                   THEN Join(output_dir, WithParquet(SplitextBase(Basename(input_files[i]))))
                   ELSE NoPath, NoSink)).output_path

\* C21: the conversions of two distinct input files never write the same
\* output path: no two workers in flight write one artifact, and no two
\* successful outcomes of distinct inputs name the same output file.
C21_NoSharedArtifact ==
    /\ \A t, u \in InFlight :
          input_files[current[t]] # input_files[current[u]] =>
              OutputOf(current[t]) # OutputOf(current[u])
    /\ \A k, m \in 1..Len(results) :
          (/\ results[k].success
           /\ results[m].success
           /\ results[k].input_file # results[m].input_file) =>
              results[k].output_file # results[m].output_file

-----------------------------------------------------------------------------
(* Claims about the desktop queue, checked under QueueSpec and QueueFairSpec *)

\* the items whose worker thread is running
RunningWorkers == {i \in DOMAIN gui.items : gui.items[i].worker \in {"started", "converting"}}

\* the items of the queue that wait for a worker
PendingItems == {gui.queue[k] : k \in PendingAt(gui)}

\* C22: at most one ConversionWorker is running, no item is started twice,
\* and the items are started in the order they were added: no item waits in
\* the queue while an item added after it has been started.
C22_QueueMutualExclusion ==
    /\ Cardinality(RunningWorkers) <= 1
    /\ \A a, b \in 1..Len(gui.started) : a < b => gui.started[a] < gui.started[b]
    /\ \A i \in PendingItems : \A j \in Range(gui.started) : j < i

\* three items were added, the second was removed while it waited, the first
\* is done and the third is running
C22_Witness ==
    /\ Len(gui.items) = 3
    /\ gui.started = <<1, 3>>
    /\ gui.items[1].result # NoResult
    /\ RunningWorkers = {3}
    /\ gui.processing

\* a worker ran or will run its conversion and its finished signal was not yet
\* delivered
WorkerWillReport ==
    \E i \in DOMAIN gui.items :
        \/ gui.items[i].worker = "converting"
        \/ gui.items[i].worker = "started" /\ ~gui.items[i].cancelled
        \/ \E e \in Range(gui.events) : e.kind = "finished" /\ e.item = i

\* every item of the queue has its result
AllQueuedDone == \A i \in Range(gui.queue) : gui.items[i].result # NoResult

\* C23: when every started conversion terminates and posted events are
\* delivered, the processing flag is never true without a worker that is yet
\* to report, and from some point on every item that is in the queue has its
\* result, whatever add, cancel and clear events occur.
C23_QueueProgress ==
    /\ [](gui.processing => WorkerWillReport)
    /\ <>[](~gui.aborted /\ AllQueuedDone)

\* three files were added, the second was cancelled while it waited, the
\* first was cleared after it was done, and the third has its result
C23_Witness ==
    /\ Len(gui.items) = 3
    /\ gui.queue = <<3>>
    /\ gui.items[1].result # NoResult
    /\ gui.items[2].result = NoResult
    /\ gui.items[3].result # NoResult
    /\ ~gui.processing

-----------------------------------------------------------------------------
(* Claims about the conversion history, checked under HistorySpec *)

RECURSIVE IsSubsequence(_, _)
\* s can be had from t by leaving entries out
IsSubsequence(s, t) ==
    IF s = << >> THEN TRUE
    ELSE IF t = << >> THEN FALSE
    ELSE IF Head(s) = Head(t) THEN IsSubsequence(Tail(s), Tail(t))
    ELSE IsSubsequence(s, Tail(t))

\* the history after a step in which the conversion newest was recorded
AfterRecording(before, newest) ==
    <<newest>> \o SubSeq(before, 1, Min(Len(before), HistoryLimit - 1))

\* every successful conversion, newest first: those since the start, then
\* those of the stored history
DesktopConversions == gui.log \o StoredHistory(HistoryLimit - 1)
ServerConversions == web.log \o OldWebHistory(HistoryLimit - 1)

\* C24: in the desktop program and in the server alike the history never
\* holds more than 50 entries, its entries are successful conversions in the
\* order newest first, a successful conversion is put in front and the oldest
\* entry is dropped when that would make 51, and a conversion that fails
\* leaves the history as it was.
C24_HistoryBounded ==
    /\ [](DOMAIN gui # {} =>
            /\ Len(gui.history) <= HistoryLimit
            /\ IsSubsequence(gui.history, DesktopConversions)
            /\ \A k \in 1..Len(gui.history) : gui.history[k].output_file # NoPath)
    /\ [](DOMAIN web # {} =>
            /\ Len(web.history) <= HistoryLimit
            /\ IsSubsequence(web.history, ServerConversions))
    /\ [][DOMAIN gui # {} =>
            IF gui'.log # gui.log
            THEN gui'.history = AfterRecording(gui.history, gui'.log[1])
            ELSE gui'.history = gui.history]_vars
    /\ [][DOMAIN web # {} =>
            IF web'.log # web.log
            THEN web'.history = AfterRecording(web.history, web'.log[1])
            ELSE web'.response.op = "delete" \/ web'.history = web.history]_vars

-----------------------------------------------------------------------------
(* Claims about the HTTP backend, checked under WebSpec *)

\* the history entries of an id
EntriesOf(w, file_id) == {k \in 1..Len(w.history) : w.history[k].id = file_id}

\* the id a name in converted/ or uploads/ begins with: what precedes "_"
RECURSIVE IdOfName(_)
IdOfName(f) ==
    IF f = << >> \/ Head(f) = "_" THEN << >> ELSE <<Head(f)>> \o IdOfName(Tail(f))

\* the artifacts and uploads that carry an id
ArtifactsOf(w, file_id) == {f \in w.converted : IdOfName(f) = file_id}
UploadsOf(w, file_id) == {f \in w.uploads : IdOfName(f) = file_id}

\* C25: right after POST /convert answered 500 the upload is removed, the
\* history has no entry of the id, no artifact of the id is in converted/ and
\* GET /download/{id} answers 404; right after it answered 200 the upload is
\* removed and the history has exactly one entry and converted/ exactly one
\* artifact of the id.
C25_ConvertLeavesNoTrace ==
    web.response.op = "convert" =>
        LET file_id == web.response.file_id
        IN  /\ web.response.status = 500 =>
                /\ UploadsOf(web, file_id) = {}
                /\ EntriesOf(web, file_id) = {}
                /\ ArtifactsOf(web, file_id) = {}
                /\ DownloadStatus(web, file_id) = 404
            /\ web.response.status = 200 =>
                /\ UploadsOf(web, file_id) = {}
                /\ Cardinality(EntriesOf(web, file_id)) = 1
                /\ Cardinality(ArtifactsOf(web, file_id)) = 1

\* C26: a DELETE /history/{file_id} that is answered with 200 removes the
\* entries of that id and the artifacts of that id and nothing else, for
\* every string file_id, and so every entry of the history has its artifact
\* in converted/.
C26_DeleteExact ==
    /\ [][\A file_id \in RequestIds :
            DeleteHistoryItem(file_id, "none") /\ web'.response.status = 200 =>
                /\ web'.history = SelectSeq(web.history, LAMBDA h : h.id # file_id)
                /\ web'.converted = web.converted \ ArtifactsOf(web, file_id)]_vars
    /\ [](\A k \in 1..Len(web.history) :
            Prefixed(web.history[k].id, web.history[k].converted_name) \in web.converted)

====
